---- MODULE Spec2Model ----
(***************************************************************************)
(* tp: the reconciler Muxer::apply (src/src/muxer.rs) run against a        *)
(* backend Client.  Strings are sequences of characters, paths sequences   *)
(* of path components, Option<T> a sequence of length 0 (None) or 1 (Some).*)
(***************************************************************************)
EXTENDS Integers, Sequences, FiniteSets, TLC

VARIABLES commands, config, session, home, base_window_id, base_pane_id, pc,
          wid, windows, focus_pane, calls, result, live

vars == <<commands, config, session, home, base_window_id, base_pane_id, pc,
          wid, windows, focus_pane, calls, result, live>>

\* ------------------------------------------------------------------ bounds
\* Windows of a session, panes of a session (over all its windows), and
\* optional fields (name, directory, focus, command) a session declares.
MaxWindows == 2
MaxPanes == 3
MaxDeclared == 2

\* Elements of a list (windows, panes) that a configuration text declares.
MaxListed == 2

\* Command lines the backend driver has run.
MaxCommands == 3

\* The width of usize, scaled down: indices are computed modulo 2^UsizeBits.
UsizeBits == 4

UsizeModulus == 2 ^ UsizeBits

\* usize::MAX.
UsizeMax == UsizeModulus - 1

\* ------------------------------------------------------------ Option<T>
None == <<>>

Some(x) == <<x>>

IsSome(o) == o # <<>>

Unwrap(o) == o[1]

\* ------------------------------------------------------- input alphabet
SessionNames == {<<"d">>}

WindowNameValue == <<"w">>

CommandValue == <<"e", "c", "h", "o", " ", "h", "i">>

NonUtf8 == "\\xff"

\* The directories a field may declare: each level has its own absolute path;
\* the session level also has "~/s", a bare "~" and a non-UTF-8 path, which
\* windows and panes inherit.
DirValues(level) ==
    {<<"/", level>>}
        \cup (IF level = "s" THEN {<<"~", "s">>, <<"~">>, <<"/", NonUtf8>>} ELSE {})

HomeValues == {None, Some(<<"/", "home">>)}

DigitChars == <<"0", "1", "2", "3", "4", "5", "6", "7", "8", "9">>

OptionTexts ==
    {<<"0">>, <<"1">>, <<>>, <<"x">>, <<"-", "1">>}

\* --------------------------------------------- config.rs: the session tree
Pane(focus, directory, command) ==
    [focus |-> focus, directory |-> directory, command |-> command]

Window(name, directory, ps) ==
    [name |-> name, directory |-> directory, panes |-> ps]

Session(name, directory, ws) ==
    [name |-> name, directory |-> directory, windows |-> ws]

\* The number of optional fields a tree declares.
Declared(o) == Len(o)

PaneDeclared(p) ==
    (IF p.focus THEN 1 ELSE 0) + Declared(p.directory) + Declared(p.command)

RECURSIVE PanesDeclared(_)
PanesDeclared(ps) ==
    IF ps = <<>> THEN 0 ELSE PaneDeclared(Head(ps)) + PanesDeclared(Tail(ps))

WindowDeclared(w) == Declared(w.name) + Declared(w.directory) + PanesDeclared(w.panes)

RECURSIVE WindowsDeclared(_)
WindowsDeclared(ws) ==
    IF ws = <<>> THEN 0 ELSE WindowDeclared(Head(ws)) + WindowsDeclared(Tail(ws))

Directories(level) == {None} \cup {Some(d) : d \in DirValues(level)}

Panes ==
    {Pane(f, d, c) : f \in BOOLEAN, d \in Directories("p"),
                     c \in {None, Some(CommandValue)}}

\* The lists of exactly n panes that declare at most k fields.
RECURSIVE PaneLists(_, _)
PaneLists(n, k) ==
    IF n = 0 THEN {<<>>}
    ELSE UNION {{<<p>> \o rest : p \in {q \in Panes : PaneDeclared(q) = a},
                                 rest \in PaneLists(n - 1, k - a)}
                : a \in 0..k}

\* The windows of exactly t panes that declare exactly k fields.
WindowsBy ==
    [k \in 0..MaxDeclared, t \in 0..MaxPanes |->
        {w \in {Window(n, d, ps) :
                    n \in {None, Some(WindowNameValue)}, d \in Directories("w"),
                    ps \in PaneLists(t, k)} :
            WindowDeclared(w) = k}]

\* ------------------------------------------------- muxer.rs: identifiers
RECURSIVE to_string(_)
to_string(n) ==
    IF n < 10 THEN <<DigitChars[n + 1]>>
    ELSE to_string(n \div 10) \o <<DigitChars[(n % 10) + 1]>>

SessionId(name) == name

WindowID(session_id, window_id) ==
    [session |-> session_id, id |-> session_id \o <<":">> \o window_id]

PaneID_colon_separated(window_id, pane_id) ==
    [window |-> window_id, id |-> window_id.id \o <<":">> \o pane_id]

\* PaneID::new, lines 67-70.
PaneID(window_id, pane_id) ==
    [window |-> window_id, id |-> window_id.id \o <<".">> \o pane_id]

\* WindowID::session_id, lines 48-50.
WindowID_session_id(window_id) == window_id.session

\* PaneID::session_id, lines 72-74.
PaneID_session_id(pane_id) == WindowID_session_id(pane_id.window)

\* PaneID::window_id, lines 76-78.
PaneID_window_id(pane_id) == pane_id.window.id

\* ------------------------------------------------ muxer.rs: Result, Error
Ok(v) == [kind |-> "Ok", value |-> v]

Err(e) == [kind |-> "Err", value |-> e]

OptionNotFound == [error |-> "OptionNotFound", detail |-> "not found"]

BaseIdsError(detail) == [error |-> "BaseIdsError", detail |-> detail]

Output(session_name, is_new_session, ws) ==
    [session_name |-> session_name, is_new_session |-> is_new_session, windows |-> ws]

\* ---------------------------------------------- muxer.rs: directories
expand_tilde_joins_whole_path(path) ==
    IF path # <<>> /\ Head(path) = "~" /\ IsSome(home) THEN Unwrap(home) \o path
    ELSE path

\* expand_tilde, lines 194-204.
expand_tilde(path) ==
    IF path # <<>> /\ Head(path) = "~" /\ IsSome(home)
    THEN IF Tail(path) = <<>> THEN Unwrap(home) \o <<"">>
         ELSE Unwrap(home) \o Tail(path)
    ELSE path

to_str(path) ==
    IF \E i \in 1..Len(path) : path[i] = NonUtf8 THEN None ELSE Some(path)

directory_to_string(directory) ==
    LET expanded == IF IsSome(directory) THEN Some(expand_tilde(Unwrap(directory)))
                    ELSE None
        str == IF IsSome(expanded) THEN to_str(Unwrap(expanded)) ELSE None
    IN IF IsSome(str) THEN Unwrap(str) ELSE <<".">>

resolve_directory_window_first(session_dir, window_dir, pane_dir) ==
    IF IsSome(window_dir) THEN window_dir
    ELSE IF IsSome(pane_dir) THEN pane_dir
    ELSE session_dir

\* resolve_directory, lines 206-215.
resolve_directory(session_dir, window_dir, pane_dir) ==
    IF IsSome(pane_dir) THEN pane_dir
    ELSE IF IsSome(window_dir) THEN window_dir
    ELSE session_dir

\* ------------------------------------------------ muxer.rs: base indices
DigitValue(c) == CHOOSE d \in 0..9 : DigitChars[d + 1] = c

RECURSIVE DigitsValue(_)
DigitsValue(digits) ==
    IF digits = <<>> THEN 0
    ELSE 10 * DigitsValue(SubSeq(digits, 1, Len(digits) - 1))
            + DigitValue(digits[Len(digits)])

\* str::parse::<usize>: an optional leading "+", then one or more digits.
ParseUsize(text) ==
    LET digits == IF text # <<>> /\ Head(text) = "+" THEN Tail(text) ELSE text
    IN IF text = <<>> THEN Err("Empty")
       ELSE IF digits = <<>> THEN Err("InvalidDigit")
       ELSE IF \E i \in 1..Len(digits) :
                    \A d \in 1..10 : DigitChars[d] # digits[i]
            THEN Err("InvalidDigit")
       ELSE IF DigitsValue(digits) > UsizeMax THEN Err("PosOverflow")
       ELSE Ok(DigitsValue(digits))

get_index_or_zero(reply) ==
    IF reply.kind = "Err" THEN Err(BaseIdsError(reply.value.detail))
    ELSE LET parsed == ParseUsize(reply.value)
         IN IF parsed.kind = "Err" THEN Ok(0) ELSE Ok(parsed.value)

get_index_keeps_backend_error(reply) ==
    IF reply.kind = "Err" THEN Err(reply.value)
    ELSE LET parsed == ParseUsize(reply.value)
         IN IF parsed.kind = "Err" THEN Err(BaseIdsError(parsed.value))
            ELSE Ok(parsed.value)

\* Muxer::get_index applied to the backend's reply to get_option.
get_index(reply) ==
    IF reply.kind = "Err" THEN Err(BaseIdsError(reply.value.detail))
    ELSE LET parsed == ParseUsize(reply.value)
         IN IF parsed.kind = "Err" THEN Err(BaseIdsError(parsed.value))
            ELSE Ok(parsed.value)

OptionReplies == {Err(OptionNotFound)} \cup {Ok(text) : text \in OptionTexts}

\* ------------------------------------------------------ the backend calls
Call(op, target, arg) == [op |-> op, target |-> target, arg |-> arg]

MutatingOps ==
    {"new_session", "switch_to_session", "new_window", "rename_window",
     "new_pane", "select_pane", "send_keys"}


\* -------------------------------------------------------------- the state
\* expand_tilde reads HOME only for a path that starts with "~": a session
\* without such a directory runs in one environment.
ReadsHome(s) ==
    LET tilde(d) == IsSome(d) /\ Unwrap(d) # <<>> /\ Head(Unwrap(d)) = "~"
    IN \/ tilde(s.directory)
       \/ \E w \in 1..Len(s.windows) :
             \/ tilde(s.windows[w].directory)
             \/ \E p \in 1..Len(s.windows[w].panes) :
                   tilde(s.windows[w].panes[p].directory)

\* session is a Session of name and directory d whose windows are ws followed
\* by n more that hold at least m panes each, at most t panes together, and
\* declare at most k fields.
RECURSIVE SessionOf(_, _, _, _, _, _, _)
SessionOf(name, d, ws, n, k, t, m) ==
    IF n = 0 THEN session = Session(name, d, ws)
    ELSE \E ab \in (0..k) \X (m..t) :
            \E w \in WindowsBy[ab[1], ab[2]] :
                SessionOf(name, d, Append(ws, w), n - 1, k - ab[1], t - ab[2], m)

\* A new Muxer that is handed a session (no configuration text is involved),
\* and a session as the loader's defaults make it (at least one
\* window, at least one pane in each window, config.rs lines 45-55): every
\* such session of at most MaxWindows windows and MaxPanes panes that declares
\* at most MaxDeclared optional fields.
Init ==
    /\ \E name \in SessionNames, d \in Directories("s"), n \in 1..MaxWindows :
          SessionOf(name, d, <<>>, n, MaxDeclared - Declared(d), MaxPanes, 1)
    /\ commands = <<>>
    /\ config = None
    /\ home \in {h \in HomeValues : ReadsHome(session) \/ IsSome(h)}
    /\ base_window_id = 0
    /\ base_pane_id = 0
    /\ pc = "idle"
    /\ wid = 0
    /\ windows = <<>>
    /\ focus_pane = None
    /\ calls = <<>>
    /\ result = None
    /\ live = {}

session_id == SessionId(session.name)

existing_session_calls_creating(sid) ==
    <<Call("has_session", sid, TRUE), Call("new_session", sid, <<".">>),
      Call("switch_to_session", sid, <<>>)>>

\* apply, lines 229-230: the calls of the existing-session path.
existing_session_calls(sid) ==
    <<Call("has_session", sid, TRUE), Call("switch_to_session", sid, <<>>)>>

ApplyBegin_falls_through(exists) ==
    /\ windows' = <<>>
    /\ wid' = 0
    /\ focus_pane' = None
    /\ calls' = IF exists THEN existing_session_calls(session_id)
                ELSE <<Call("has_session", session_id, FALSE)>>
    /\ result' = None
    /\ pc' = "base_index"
    /\ UNCHANGED <<commands, config, session, home, base_window_id, base_pane_id, live>>

\* apply, lines 226-236: has_session, and the existing-session path.
ApplyBegin(exists) ==
    /\ windows' = <<>>
    /\ wid' = 0
    /\ focus_pane' = None
    /\ IF exists
       THEN /\ calls' = existing_session_calls(session_id)
            /\ result' = Some(Ok(Output(session.name, FALSE, <<>>)))
            /\ pc' = "done"
       ELSE /\ calls' = <<Call("has_session", session_id, FALSE)>>
            /\ result' = None
            /\ pc' = "base_index"
    /\ UNCHANGED <<commands, config, session, home, base_window_id, base_pane_id, live>>

\* The first apply of a new Muxer; the backend answers has_session freely,
\* as the mock of the tests does.
Apply ==
    /\ pc = "idle"
    /\ \E exists \in BOOLEAN : ApplyBegin(exists)

SetupBaseWindowId_continues_on_error ==
    /\ pc = "base_index"
    /\ \E reply \in OptionReplies :
          LET r == get_index(reply)
          IN /\ calls' = Append(calls, Call("get_option", "base-index", reply))
             /\ base_window_id' = IF r.kind = "Err" THEN 0 ELSE r.value
             /\ pc' = "pane_base_index"
             /\ UNCHANGED result
    /\ UNCHANGED <<commands, config, session, home, base_pane_id, wid, windows, focus_pane, live>>

SetupBaseWindowId_keeps_earlier_value ==
    /\ pc = "base_index"
    /\ \E reply \in OptionReplies :
          LET r == get_index(reply)
          IN /\ calls' = Append(calls, Call("get_option", "base-index", reply))
             /\ IF r.kind = "Err"
                THEN /\ result' = Some(r)
                     /\ pc' = "done"
                     /\ UNCHANGED base_window_id
                ELSE /\ base_window_id' =
                            IF base_window_id # 0 THEN base_window_id ELSE r.value
                     /\ pc' = "pane_base_index"
                     /\ UNCHANGED result
    /\ UNCHANGED <<commands, config, session, home, base_pane_id, wid, windows, focus_pane, live>>

\* setup_base_ids, line 309, against a backend that answers get_option with
\* one of replies.
SetupBaseWindowIdFrom(replies) ==
    /\ pc = "base_index"
    /\ \E reply \in replies :
          LET r == get_index(reply)
          IN /\ calls' = Append(calls, Call("get_option", "base-index", reply))
             /\ IF r.kind = "Err"
                THEN /\ result' = Some(r)
                     /\ pc' = "done"
                     /\ UNCHANGED base_window_id
                ELSE /\ base_window_id' = r.value
                     /\ pc' = "pane_base_index"
                     /\ UNCHANGED result
    /\ UNCHANGED <<commands, config, session, home, base_pane_id, wid, windows, focus_pane, live>>

\* setup_base_ids, line 310, against a backend that answers get_option with
\* one of replies.
SetupBasePaneIdFrom(replies) ==
    /\ pc = "pane_base_index"
    /\ \E reply \in replies :
          LET r == get_index(reply)
          IN /\ calls' = Append(calls, Call("get_option", "pane-base-index", reply))
             /\ IF r.kind = "Err"
                THEN /\ result' = Some(r)
                     /\ pc' = "done"
                     /\ UNCHANGED base_pane_id
                ELSE /\ base_pane_id' = r.value
                     /\ pc' = "new_session"
                     /\ UNCHANGED result
    /\ UNCHANGED <<commands, config, session, home, base_window_id, wid, windows, focus_pane, live>>

SetupBaseWindowId == SetupBaseWindowIdFrom(OptionReplies)

SetupBasePaneId == SetupBasePaneIdFrom(OptionReplies)

first(s) == IF s = <<>> THEN None ELSE Some(s[1])

session_initial_dir_ignores_pane(s) ==
    LET first_window == first(s.windows)
    IN resolve_directory(
           s.directory,
           IF IsSome(first_window) THEN Unwrap(first_window).directory ELSE None,
           None)

\* apply, lines 240-246: the directory new_session is given.
session_initial_dir(s) ==
    LET first_window == first(s.windows)
        first_pane == IF IsSome(first_window)
                      THEN first(Unwrap(first_window).panes) ELSE None
    IN resolve_directory(
           s.directory,
           IF IsSome(first_window) THEN Unwrap(first_window).directory ELSE None,
           IF IsSome(first_pane) THEN Unwrap(first_pane).directory ELSE None)

NewSession_skips_empty_session ==
    /\ pc = "new_session"
    /\ calls' = IF session.windows = <<>> THEN calls
                ELSE Append(calls, Call("new_session", session_id,
                                        directory_to_string(session_initial_dir(session))))
    /\ live' = live \cup {session_id}
    /\ focus_pane' = None
    /\ wid' = 0
    /\ pc' = "window"
    /\ UNCHANGED <<commands, config, session, home, base_window_id, base_pane_id, windows, result>>

\* apply, lines 240-251.
NewSession ==
    /\ pc = "new_session"
    /\ calls' = Append(calls, Call("new_session", session_id,
                                   directory_to_string(session_initial_dir(session))))
    /\ live' = live \cup {session_id}
    /\ focus_pane' = None
    /\ wid' = 0
    /\ pc' = "window"
    /\ UNCHANGED <<commands, config, session, home, base_window_id, base_pane_id, windows, result>>

window_calls_renames_always(s, w_pos, w_id) ==
    LET w == s.windows[w_pos + 1]
        w_dir == resolve_directory(s.directory, w.directory, None)
        initial_dir ==
            resolve_directory(s.directory, w_dir,
                              IF IsSome(first(w.panes))
                              THEN Unwrap(first(w.panes)).directory ELSE None)
        created == IF w_pos > 0
                   THEN <<Call("new_window", SessionId(s.name),
                               directory_to_string(initial_dir))>>
                   ELSE <<>>
        renamed == <<Call("rename_window", w_id,
                          IF IsSome(w.name) THEN Unwrap(w.name) ELSE <<>>)>>
    IN created \o renamed

\* apply, lines 253-269: the calls that open the window at position w_pos.
window_calls(s, w_pos, w_id) ==
    LET w == s.windows[w_pos + 1]
        w_dir == resolve_directory(s.directory, w.directory, None)
        initial_dir ==
            resolve_directory(s.directory, w_dir,
                              IF IsSome(first(w.panes))
                              THEN Unwrap(first(w.panes)).directory ELSE None)
        created == IF w_pos > 0
                   THEN <<Call("new_window", SessionId(s.name),
                               directory_to_string(initial_dir))>>
                   ELSE <<>>
        renamed == IF IsSome(w.name)
                   THEN <<Call("rename_window", w_id, Unwrap(w.name))>>
                   ELSE <<>>
    IN created \o renamed

next_focus_first_wins(focus, p, p_id) ==
    IF p.focus /\ ~IsSome(focus) THEN Some(p_id) ELSE focus

\* apply, lines 275-277.
next_focus(focus, p, p_id) == IF p.focus THEN Some(p_id) ELSE focus

creates_pane_always(p_pos) == p_pos >= 0

\* apply, lines 280-283: new_pane for every pane but the window's first.
creates_pane(p_pos) == p_pos > 0

pane_index_from_one(base_pane, p_pos) == base_pane + p_pos + 1

pane_index_ignores_position(base_pane, p_pos) == base_pane

\* apply, line 273: the index when the addition returns; it has wrapped
\* around if the sum is above usize::MAX (a build without overflow checks).
pane_index(base_pane, p_pos) == (base_pane + p_pos) % UsizeModulus

\* The text before the first space.
RECURSIVE FirstWord(_)
FirstWord(text) ==
    IF text = <<>> \/ Head(text) = " " THEN <<>>
    ELSE <<Head(text)>> \o FirstWord(Tail(text))

pane_step_sends_first_word(acc, s, w, w_id, p_pos, base_pane) ==
    LET p == w.panes[p_pos + 1]
        p_idx == pane_index(base_pane, p_pos)
        p_id == PaneID(w_id, to_string(p_idx))
        w_dir == resolve_directory(s.directory, w.directory, None)
        pane_dir == resolve_directory(s.directory, w_dir, p.directory)
        created == IF creates_pane(p_pos)
                   THEN <<Call("new_pane", w_id, directory_to_string(pane_dir))>>
                   ELSE <<>>
        sent == IF IsSome(p.command)
                THEN <<Call("send_keys", p_id, FirstWord(Unwrap(p.command)))>>
                ELSE <<>>
    IN [calls |-> acc.calls \o created \o sent,
        panes |-> Append(acc.panes, p_idx),
        focus_pane |-> next_focus(acc.focus_pane, p, p_id)]

pane_step_sends_before_create(acc, s, w, w_id, p_pos, base_pane) ==
    LET p == w.panes[p_pos + 1]
        p_idx == pane_index(base_pane, p_pos)
        p_id == PaneID(w_id, to_string(p_idx))
        w_dir == resolve_directory(s.directory, w.directory, None)
        pane_dir == resolve_directory(s.directory, w_dir, p.directory)
        created == IF creates_pane(p_pos)
                   THEN <<Call("new_pane", w_id, directory_to_string(pane_dir))>>
                   ELSE <<>>
        sent == IF IsSome(p.command)
                THEN <<Call("send_keys", p_id, Unwrap(p.command))>>
                ELSE <<>>
    IN [calls |-> acc.calls \o sent \o created,
        panes |-> Append(acc.panes, p_idx),
        focus_pane |-> next_focus(acc.focus_pane, p, p_id)]

\* apply, lines 273-289: one iteration of the pane loop; acc holds the calls
\* issued, the indices pushed and the focus candidate so far.
pane_step(acc, s, w, w_id, p_pos, base_pane) ==
    LET p == w.panes[p_pos + 1]
        p_idx == pane_index(base_pane, p_pos)
        p_id == PaneID(w_id, to_string(p_idx))
        w_dir == resolve_directory(s.directory, w.directory, None)
        pane_dir == resolve_directory(s.directory, w_dir, p.directory)
        created == IF creates_pane(p_pos)
                   THEN <<Call("new_pane", w_id, directory_to_string(pane_dir))>>
                   ELSE <<>>
        sent == IF IsSome(p.command)
                THEN <<Call("send_keys", p_id, Unwrap(p.command))>>
                ELSE <<>>
    IN [calls |-> acc.calls \o created \o sent,
        panes |-> Append(acc.panes, p_idx),
        focus_pane |-> next_focus(acc.focus_pane, p, p_id)]

\* apply, lines 271-290: the pane loop from position p_pos on.
RECURSIVE pane_loop(_, _, _, _, _, _)
pane_loop(acc, s, w, w_id, p_pos, base_pane) ==
    IF p_pos >= Len(w.panes) THEN acc
    ELSE pane_loop(pane_step(acc, s, w, w_id, p_pos, base_pane),
                   s, w, w_id, p_pos + 1, base_pane)

window_index_from_zero(base_window, w_pos) == w_pos

\* apply, line 264: the index when the addition returns; it has wrapped
\* around if the sum is above usize::MAX (a build without overflow checks).
window_index(base_window, w_pos) == (base_window + w_pos) % UsizeModulus

WindowStep_reports_positions ==
    /\ pc = "window"
    /\ wid < Len(session.windows)
    /\ LET widx == window_index(base_window_id, wid)
           window_id == WindowID(session_id, to_string(widx))
           opened == window_calls(session, wid, window_id)
           done == pane_loop([calls |-> calls \o opened, panes |-> <<>>,
                              focus_pane |-> focus_pane],
                             session, session.windows[wid + 1], window_id, 0,
                             base_pane_id)
       IN /\ calls' = done.calls
          /\ focus_pane' = done.focus_pane
          /\ windows' = Append(windows,
                               <<wid, [p \in 1..Len(done.panes) |-> p - 1]>>)
    /\ wid' = wid + 1
    /\ UNCHANGED <<commands, config, session, home, base_window_id, base_pane_id, pc, result, live>>

\* apply, lines 252-293: one iteration of the window loop.
WindowStep ==
    /\ pc = "window"
    /\ wid < Len(session.windows)
    /\ LET widx == window_index(base_window_id, wid)
           window_id == WindowID(session_id, to_string(widx))
           opened == window_calls(session, wid, window_id)
           done == pane_loop([calls |-> calls \o opened, panes |-> <<>>,
                              focus_pane |-> focus_pane],
                             session, session.windows[wid + 1], window_id, 0,
                             base_pane_id)
       IN /\ calls' = done.calls
          /\ focus_pane' = done.focus_pane
          /\ windows' = Append(windows, <<widx, done.panes>>)
    /\ wid' = wid + 1
    /\ UNCHANGED <<commands, config, session, home, base_window_id, base_pane_id, pc, result, live>>

finish_calls_switch_first(focus, sid) ==
    <<Call("switch_to_session", sid, <<>>)>>
        \o (IF IsSome(focus) THEN <<Call("select_pane", Unwrap(focus), <<>>)>> ELSE <<>>)

finish_calls_without_switch(focus, sid) ==
    IF IsSome(focus) THEN <<Call("select_pane", Unwrap(focus), <<>>)>> ELSE <<>>

\* apply, lines 295-299.
finish_calls(focus, sid) ==
    (IF IsSome(focus) THEN <<Call("select_pane", Unwrap(focus), <<>>)>> ELSE <<>>)
        \o <<Call("switch_to_session", sid, <<>>)>>

created_output_not_new(s, ws) == Output(s.name, FALSE, ws)

\* apply, lines 301-305.
created_output(s, ws) == Output(s.name, TRUE, ws)

\* apply, lines 295-305.
Finish ==
    /\ pc = "window"
    /\ wid = Len(session.windows)
    /\ calls' = calls \o finish_calls(focus_pane, session_id)
    /\ result' = Some(Ok(created_output(session, windows)))
    /\ pc' = "done"
    /\ UNCHANGED <<commands, config, session, home, base_window_id, base_pane_id, wid, windows,
                   focus_pane, live>>

Next ==
    \/ Apply
    \/ SetupBaseWindowId
    \/ SetupBasePaneId
    \/ NewSession
    \/ WindowStep
    \/ Finish

Spec == Init /\ [][Next]_vars

\* A later apply of the same Muxer and session, against a backend in which
\* has_session(id) is true once new_session(id) has been issued.
Reapply ==
    /\ pc = "done"
    /\ \E exists \in BOOLEAN :
          /\ session_id \in live => exists
          /\ ApplyBegin(exists)

NextReuse ==
    \/ Next
    \/ Reapply

SpecReuse == Init /\ [][NextReuse]_vars

\* ------------------------------------------------- reading the call log
CallsOf(op) == SelectSeq(calls, LAMBDA c : c.op = op)

Count(op) == Len(CallsOf(op))

Started == calls # <<>>

HasSessionReply == calls[1].arg

Returned == pc = "done" /\ IsSome(result)

ReturnedOk == Returned /\ Unwrap(result).kind = "Ok"

ReturnedErr == Returned /\ Unwrap(result).kind = "Err"

\* C1: when has_session returns true, apply issues exactly one
\* switch_to_session call, on the session's id, and no get_option,
\* new_session, new_window, rename_window, new_pane, send_keys or select_pane
\* call, and returns Ok with is_new_session = false and an empty report.
C1_ExistingSessionOnlySwitches ==
    (Started /\ HasSessionReply = TRUE) =>
        /\ ReturnedOk
        /\ Count("switch_to_session") = 1
        /\ CallsOf("switch_to_session")[1].target = SessionId(session.name)
        /\ \A op \in {"get_option", "new_session", "new_window", "rename_window",
                      "new_pane", "send_keys", "select_pane"} : Count(op) = 0
        /\ Unwrap(result).value.is_new_session = FALSE
        /\ Unwrap(result).value.windows = <<>>

C1_Witness ==
    /\ Started
    /\ HasSessionReply = TRUE
    /\ ReturnedOk
    /\ Len(session.windows) = MaxWindows
    /\ \E w \in 1..Len(session.windows) : Len(session.windows[w].panes) > 1

\* --------------------------------------------------- reading the session
NumWindows == Len(session.windows)

NumPanes(w) == Len(session.windows[w + 1].panes)

RECURSIVE TotalPanes(_)
TotalPanes(ws) == IF ws = <<>> THEN 0 ELSE Len(Head(ws).panes) + TotalPanes(Tail(ws))

Creating == Started /\ HasSessionReply = FALSE

Created == Creating /\ ReturnedOk

\* The replies to the two option lookups of a creating apply.
BaseIndexReply == calls[2].arg

PaneBaseIndexReply == calls[3].arg

IsNonNegativeInteger(text) ==
    /\ text # <<>>
    /\ \A i \in 1..Len(text) : \E d \in 1..10 : DigitChars[d] = text[i]

BadReply(reply) == reply.kind = "Err" \/ ~IsNonNegativeInteger(reply.value)

\* C2: when has_session returns false and a lookup of base-index or
\* pane-base-index returns an error or text that is no non-negative integer,
\* apply returns Err(BaseIdsError) and has made no call but has_session and
\* option lookups.
C2_BadBaseIndexAborts ==
    (Creating /\ \E i \in 1..Len(calls) :
                    calls[i].op = "get_option" /\ BadReply(calls[i].arg)) =>
        /\ ReturnedErr
        /\ Unwrap(result).value.error = "BaseIdsError"
        /\ \A i \in 1..Len(calls) : calls[i].op \in {"has_session", "get_option"}

C2_Witness ==
    /\ Creating
    /\ ReturnedErr
    /\ Len(calls) = 3
    /\ BaseIndexReply = Ok(<<"1">>)
    /\ PaneBaseIndexReply = Ok(<<"-", "1">>)

\* The window id the claims expect at 0-indexed position w.
ExpectedWindowId(w) ==
    WindowID(SessionId(session.name), to_string(DigitsValue(BaseIndexReply.value) + w))

NewPanesOf(w) ==
    SelectSeq(calls, LAMBDA c : c.op = "new_pane" /\ c.target = ExpectedWindowId(w))

\* C3: a creating apply of a session of W >= 1 windows, each of n_w >= 1
\* panes, issues exactly one new_session, W - 1 new_window calls and, for each
\* window, n_w - 1 new_pane calls on that window's id.
C3_OneCreationPerWindowAndPane ==
    (Created /\ NumWindows >= 1 /\ \A w \in 0..(NumWindows - 1) : NumPanes(w) >= 1) =>
        /\ Count("new_session") = 1
        /\ Count("new_window") = NumWindows - 1
        /\ \A w \in 0..(NumWindows - 1) : Len(NewPanesOf(w)) = NumPanes(w) - 1
        /\ Count("new_pane") = TotalPanes(session.windows) - NumWindows

C3_Witness ==
    /\ Created
    /\ NumWindows = 2
    /\ NumPanes(0) = 1
    /\ NumPanes(1) = 2
    /\ Count("new_window") = 1
    /\ Count("new_pane") = 1

\* The apply has issued new_session: it is in or past the window loop.
InLoop == Creating /\ Count("new_session") = 1

PaneAt(w, p) == session.windows[w + 1].panes[p + 1]

\* The first present of the pane's, its window's and the session's directory.
DeclaredDirectory(w, p) ==
    IF IsSome(PaneAt(w, p).directory) THEN PaneAt(w, p).directory
    ELSE IF IsSome(session.windows[w + 1].directory) THEN session.windows[w + 1].directory
    ELSE session.directory

\* A path as the backend receives it: a leading "~" replaced by HOME when
\* HOME is set, and "." for no path or one that is not UTF-8.
Rendered(directory) ==
    IF ~IsSome(directory) THEN <<".">>
    ELSE LET path == Unwrap(directory)
         IN IF \E i \in 1..Len(path) : path[i] = NonUtf8 THEN <<".">>
            ELSE IF path # <<>> /\ path[1] = "~" /\ IsSome(home)
                 THEN Unwrap(home) \o (IF Len(path) = 1 THEN <<"">> ELSE Tail(path))
            ELSE path

\* C4 as stated: the new_pane call of the pane at position p > 0 is given
\* pane.directory, else the window's, else the session's directory, else ".".
C4_Original ==
    InLoop =>
        \A w \in 0..(NumWindows - 1) : \A p \in 1..Len(NewPanesOf(w)) :
            NewPanesOf(w)[p].arg =
                (IF IsSome(DeclaredDirectory(w, p)) THEN Unwrap(DeclaredDirectory(w, p))
                 ELSE <<".">>)

\* C4, amended: the new_pane call of the pane at position p > 0 is given the
\* first present of pane.directory, the window's and the session's directory,
\* with a leading "~" replaced by HOME when HOME is set, and "." when none is
\* present or the path is not UTF-8; no other pane or window has a say.
C4_Amended ==
    InLoop =>
        \A w \in 0..(NumWindows - 1) : \A p \in 1..Len(NewPanesOf(w)) :
            NewPanesOf(w)[p].arg = Rendered(DeclaredDirectory(w, p))

C4_Witness ==
    /\ Created
    /\ NumWindows = 1
    /\ NumPanes(0) = 2
    /\ PaneAt(0, 0).directory # PaneAt(0, 1).directory
    /\ IsSome(PaneAt(0, 1).directory)
    /\ IsSome(session.windows[1].directory)
    /\ Len(NewPanesOf(0)) = 1
    /\ NewPanesOf(0)[1].arg = Unwrap(PaneAt(0, 1).directory)

\* The pane positions <<w, p>> of the session in traversal order.
RECURSIVE PanePositionsFrom(_)
PanePositionsFrom(w) ==
    IF w >= NumWindows THEN <<>>
    ELSE [p \in 1..NumPanes(w) |-> <<w, p - 1>>] \o PanePositionsFrom(w + 1)

PanePositions == PanePositionsFrom(0)

FocusedPanes == SelectSeq(PanePositions, LAMBDA x : PaneAt(x[1], x[2]).focus)

CommandPanes == SelectSeq(PanePositions, LAMBDA x : IsSome(PaneAt(x[1], x[2]).command))

\* The pane id the claims expect at 0-indexed position <<w, p>>.
ExpectedPaneId(x) ==
    PaneID(ExpectedWindowId(x[1]),
           to_string(DigitsValue(PaneBaseIndexReply.value) + x[2]))

\* C5: a creating apply issues select_pane at most once: once iff some pane
\* has focus = true, and then on the id of the last focused pane in traversal
\* order.
C5_SelectsLastFocusedPane ==
    /\ Creating => Count("select_pane") <= 1
    /\ Created =>
          IF FocusedPanes = <<>> THEN Count("select_pane") = 0
          ELSE /\ Count("select_pane") = 1
               /\ CallsOf("select_pane")[1].target =
                      ExpectedPaneId(FocusedPanes[Len(FocusedPanes)])

C5_Witness ==
    /\ Created
    /\ Len(FocusedPanes) = 2
    /\ Count("select_pane") = 1
    /\ CallsOf("select_pane")[1].target # ExpectedPaneId(FocusedPanes[1])

WindowPositions == [i \in 1..NumWindows |-> i - 1]

NamedWindows == SelectSeq(WindowPositions, LAMBDA w : IsSome(session.windows[w + 1].name))

\* C6: with bw the value of base-index and bp that of pane-base-index, the
\* calls on the window at position w (rename_window, new_pane) use the window
\* id of bw + w and the calls on its pane at position p (send_keys,
\* select_pane) the pane id of (bw + w, bp + p).
C6_IdsOffsetByBaseIndices ==
    Created =>
        /\ Count("rename_window") = Len(NamedWindows)
        /\ \A k \in 1..Len(NamedWindows) :
              CallsOf("rename_window")[k].target = ExpectedWindowId(NamedWindows[k])
        /\ \A k \in 1..Count("new_pane") :
              \E w \in 0..(NumWindows - 1) :
                  CallsOf("new_pane")[k].target = ExpectedWindowId(w)
        /\ \A w \in 0..(NumWindows - 1) :
              Len(NewPanesOf(w)) = IF NumPanes(w) > 0 THEN NumPanes(w) - 1 ELSE 0
        /\ Count("send_keys") = Len(CommandPanes)
        /\ \A k \in 1..Len(CommandPanes) :
              CallsOf("send_keys")[k].target = ExpectedPaneId(CommandPanes[k])
        /\ \A k \in 1..Count("select_pane") :
              CallsOf("select_pane")[k].target =
                  ExpectedPaneId(FocusedPanes[Len(FocusedPanes)])

\* Both options `1`, two windows of one pane: windows 1 and 2, pane 1.
C6_Witness ==
    /\ Created
    /\ BaseIndexReply = Ok(<<"1">>)
    /\ PaneBaseIndexReply = Ok(<<"1">>)
    /\ NumWindows = 2
    /\ NumPanes(0) = 1
    /\ NumPanes(1) = 1
    /\ Count("rename_window") = 1
    /\ CallsOf("rename_window")[1].target.id = <<"d", ":", "2">>
    /\ Count("send_keys") = 1
    /\ CallsOf("send_keys")[1].target.id = <<"d", ":", "1", ".", "1">>

MutatingCalls == SelectSeq(calls, LAMBDA c : c.op \in MutatingOps)

\* One unnamed window of one pane that has focus and a command, no directory.
IsDemoSession ==
    /\ session.directory = None
    /\ NumWindows = 1
    /\ session.windows[1].name = None
    /\ session.windows[1].directory = None
    /\ NumPanes(0) = 1
    /\ PaneAt(0, 0).focus
    /\ PaneAt(0, 0).directory = None
    /\ IsSome(PaneAt(0, 0).command)

DemoPane ==
    [window |-> [session |-> session.name, id |-> session.name \o <<":", "0">>],
     id |-> session.name \o <<":", "0", ".", "0">>]

\* C7: for a session of one unnamed window of one pane with focus = true and
\* a command c, no directories, no existing session and base indices 0/0, the
\* mutating calls are new_session(name, "."), send_keys(pane(name,0,0), c),
\* select_pane(pane(name,0,0)), switch_to_session(name), in this order, and
\* the output is {name, is_new_session: true, windows: [(0, [0])]}.
C7_DemoScenario ==
    (/\ Created
     /\ IsDemoSession
     /\ BaseIndexReply = Ok(<<"0">>)
     /\ PaneBaseIndexReply = Ok(<<"0">>)) =>
        /\ MutatingCalls =
              <<Call("new_session", session.name, <<".">>),
                Call("send_keys", DemoPane, Unwrap(PaneAt(0, 0).command)),
                Call("select_pane", DemoPane, <<>>),
                Call("switch_to_session", session.name, <<>>)>>
        /\ Unwrap(result).value =
              [session_name |-> session.name, is_new_session |-> TRUE,
               windows |-> << <<0, <<0>> >> >>]

C7_Witness ==
    /\ Created
    /\ IsDemoSession
    /\ BaseIndexReply = Ok(<<"0">>)
    /\ PaneBaseIndexReply = Ok(<<"0">>)
    /\ Len(MutatingCalls) = 4

\* C8: against a backend in which has_session(id) is true once
\* new_session(id) has been issued, an apply that follows the apply that
\* created the session makes only the calls has_session and one
\* switch_to_session, and returns is_new_session = false.
C8_SecondApplyOnlySwitches ==
    (Started /\ SessionId(session.name) \in live /\ Count("new_session") = 0) =>
        /\ calls = <<Call("has_session", session.name, TRUE),
                     Call("switch_to_session", session.name, <<>>)>>
        /\ ReturnedOk
        /\ Unwrap(result).value.is_new_session = FALSE
        /\ Unwrap(result).value.windows = <<>>

C8_Witness ==
    /\ SessionId(session.name) \in live
    /\ Count("new_session") = 0
    /\ ReturnedOk
    /\ Unwrap(result).value.is_new_session = FALSE
    /\ NumWindows = 2

\* C9: whenever apply returns Ok, output.session_name is the session's name
\* and output.is_new_session is true iff has_session returned false, in which
\* case new_session was issued exactly once.
C9_OutputNameAndNewFlag ==
    ReturnedOk =>
        /\ Unwrap(result).value.session_name = session.name
        /\ Unwrap(result).value.is_new_session <=> (HasSessionReply = FALSE)
        /\ Unwrap(result).value.is_new_session => Count("new_session") = 1
        /\ ~Unwrap(result).value.is_new_session => Count("new_session") = 0

C9_Witness ==
    /\ ReturnedOk
    /\ Unwrap(result).value.is_new_session
    /\ HasSessionReply = FALSE
    /\ Count("new_session") = 1
    /\ NumWindows = 2

\* C10: with both base-index options `0`, a creating apply reports one entry
\* per declared window in declaration order, the entry of the window at
\* position w being (w, [0, ..., n_w - 1]); one window of one pane (what a
\* session that declares only a name has) yields [(0, [0])].
C10_ReportAtBaseZero ==
    (Created /\ BaseIndexReply = Ok(<<"0">>) /\ PaneBaseIndexReply = Ok(<<"0">>)) =>
        /\ Len(Unwrap(result).value.windows) = NumWindows
        /\ \A w \in 0..(NumWindows - 1) :
              /\ Unwrap(result).value.windows[w + 1][1] = w
              /\ Len(Unwrap(result).value.windows[w + 1][2]) = NumPanes(w)
              /\ \A p \in 0..(NumPanes(w) - 1) :
                    Unwrap(result).value.windows[w + 1][2][p + 1] = p

C10_Witness ==
    /\ Created
    /\ BaseIndexReply = Ok(<<"0">>)
    /\ PaneBaseIndexReply = Ok(<<"0">>)
    /\ session = Session(session.name, None, <<Window(None, None, <<Pane(FALSE, None, None)>>)>>)
    /\ Unwrap(result).value.windows = << <<0, <<0>> >> >>

\* ------------------------------------------------- the identifiers composed
\* apply, lines 264-265 and 273-274: the window ids and pane ids composed so
\* far, read off the indices apply has pushed.
ComposedWindowIds ==
    [i \in 1..Len(windows) |-> WindowID(session_id, to_string(windows[i][1]))]

ComposedPaneIds ==
    [i \in 1..Len(windows) |->
        [j \in 1..Len(windows[i][2]) |->
            PaneID(ComposedWindowIds[i], to_string(windows[i][2][j]))]]

PairwiseDistinct(s) == \A i, j \in 1..Len(s) : i # j => s[i] # s[j]

\* C11: within one apply, two distinct window positions have different
\* window id strings, two distinct pane positions have different pane id
\* strings (there are as many id strings as positions), so the pane ids
\* addressed (send_keys) are pairwise distinct; and every call addresses the
\* id composed for its position.
C11_IdsCollisionFree ==
    InLoop =>
        LET positions ==
                UNION {{<<i, p>> : p \in 1..Len(windows[i][2])} : i \in 1..Len(windows)}
            window_ids == {ComposedWindowIds[i] : i \in 1..Len(windows)}
            pane_ids == {ComposedPaneIds[x[1]][x[2]] : x \in positions}
            keyed == CallsOf("send_keys")
        IN /\ Cardinality({w.id : w \in window_ids}) = Len(windows)
           /\ Cardinality({p.id : p \in pane_ids}) = Cardinality(positions)
           /\ Cardinality({keyed[k].target.id : k \in 1..Len(keyed)}) = Len(keyed)
           /\ \A k \in 1..Len(calls) :
                 /\ calls[k].op \in {"rename_window", "new_pane"} =>
                       calls[k].target \in window_ids
                 /\ calls[k].op \in {"send_keys", "select_pane"} =>
                       calls[k].target \in pane_ids

C11_Witness ==
    /\ Created
    /\ NumWindows = 2
    /\ NumPanes(0) = 2
    /\ Count("send_keys") = 2
    /\ CallsOf("send_keys")[1].target.window = CallsOf("send_keys")[2].target.window
    /\ CallsOf("send_keys")[1].target.id # CallsOf("send_keys")[2].target.id

\* ------------------------------------------------ directories and HOME
\* The calls that carry a directory, in the order issued: new_session for
\* the first pane of the first window, new_window for the first pane of a
\* later window, new_pane for every other pane.
DirectoryCalls ==
    SelectSeq(calls, LAMBDA c : c.op \in {"new_session", "new_window", "new_pane"})

\* The declared directory the k-th of them stands for.
DirectoryOf(k) == DeclaredDirectory(PanePositions[k][1], PanePositions[k][2])

StartsWithTilde(directory) ==
    IsSome(directory) /\ Unwrap(directory) # <<>> /\ Unwrap(directory)[1] = "~"

\* A path as the backend receives it when HOME is h.
RenderedUnder(h, directory) ==
    IF ~IsSome(directory) THEN <<".">>
    ELSE LET path == Unwrap(directory)
         IN IF \E i \in 1..Len(path) : path[i] = NonUtf8 THEN <<".">>
            ELSE IF StartsWithTilde(directory) /\ IsSome(h)
                 THEN Unwrap(h) \o (IF Len(path) = 1 THEN <<"">> ELSE Tail(path))
            ELSE path

\* C12 as stated: the directory strings issued are those resolved from the
\* tree, the same whatever the value of HOME is (no tilde expansion).
C12_Original ==
    InLoop =>
        \A k \in 1..Len(DirectoryCalls) : \A h \in HomeValues :
            DirectoryCalls[k].arg = RenderedUnder(h, DirectoryOf(k))

\* C12, amended: the directory strings issued depend on the session tree and,
\* for a directory whose first component is "~", on HOME: such a directory
\* has "~" replaced by HOME when HOME is set; any other directory is issued
\* the same whatever the value of HOME is.
C12_Amended ==
    InLoop =>
        LET issued == DirectoryCalls
            positions == PanePositions
        IN \A k \in 1..Len(issued) :
              LET declared == DeclaredDirectory(positions[k][1], positions[k][2])
              IN /\ issued[k].arg = RenderedUnder(home, declared)
                 /\ ~StartsWithTilde(declared) =>
                       \A h \in HomeValues : issued[k].arg = RenderedUnder(h, declared)

C12_Witness ==
    /\ Created
    /\ IsSome(home)
    /\ Len(DirectoryCalls) = 3
    /\ StartsWithTilde(DirectoryOf(1))
    /\ DirectoryCalls[1].arg # Unwrap(DirectoryOf(1))
    /\ DirectoryCalls[1].arg # RenderedUnder(None, DirectoryOf(1))
    /\ ~StartsWithTilde(DirectoryOf(3))
    /\ IsSome(DirectoryOf(3))
    /\ DirectoryCalls[3].arg = Unwrap(DirectoryOf(3))

\* ------------------------------------------------- config.rs: the loader
\* A configuration text as serde reads it: a mapping in which a key is absent
\* (None) or present (Some); an empty list element is the mapping with every
\* key absent.
PaneConfig(focus, directory, command) ==
    [focus |-> focus, directory |-> directory, command |-> command]

WindowConfig(name, directory, ps) ==
    [name |-> name, directory |-> directory, panes |-> ps]

SessionConfig(name, directory, ws) ==
    [name |-> name, directory |-> directory, windows |-> ws]

PaneConfigs ==
    {PaneConfig(None, None, None),
     PaneConfig(Some(TRUE), Some(<<"/", "p">>), Some(CommandValue))}

\* The lists of at most n elements of S.
RECURSIVE ListsOf(_, _)
ListsOf(S, n) ==
    IF n = 0 THEN {<<>>}
    ELSE {<<>>} \cup {<<x>> \o rest : x \in S, rest \in ListsOf(S, n - 1)}

\* A key that is absent, or present with a list of at most MaxListed elements.
ListKey(S) == {None} \cup {Some(l) : l \in ListsOf(S, MaxListed)}

WindowConfigs ==
    {WindowConfig(n, None, ps) :
        n \in {None, Some(WindowNameValue)}, ps \in ListKey(PaneConfigs)}

SessionConfigs ==
    {SessionConfig(name, d, ws) :
        name \in SessionNames, d \in {None, Some(<<"/", "s">>)},
        ws \in ListKey(WindowConfigs)}

Yaml(mapping) == [kind |-> "Yaml", value |-> mapping]

\* A text that is no session mapping ("parser error").
Malformed == [kind |-> "Text", value |-> "parser error"]

UnableToParseConfig == [error |-> "UnableToParseConfig", detail |-> "parser error"]

default_panes_empty == <<>>

\* default_panes, lines 53-55; Pane::default() is the derived Default.
default_panes == <<Pane(FALSE, None, None)>>

\* default_windows, lines 45-51.
default_windows == <<Window(None, None, default_panes)>>

\* Deserialize for Pane, lines 35-43: focus has #[serde(default)].
load_pane(c) ==
    Pane(IF IsSome(c.focus) THEN Unwrap(c.focus) ELSE FALSE, c.directory, c.command)

\* Deserialize for Window, lines 25-33.
load_window(c) ==
    Window(c.name, c.directory,
           IF IsSome(c.panes)
           THEN [p \in 1..Len(Unwrap(c.panes)) |-> load_pane(Unwrap(c.panes)[p])]
           ELSE default_panes)

\* Deserialize for Session, lines 15-23.
load_session(c) ==
    Session(c.name, c.directory,
            IF IsSome(c.windows)
            THEN [w \in 1..Len(Unwrap(c.windows)) |-> load_window(Unwrap(c.windows)[w])]
            ELSE default_windows)

\* Session::load_from_string, lines 84-87.
load_from_string(content) ==
    IF content.kind = "Yaml" THEN Ok(load_session(content.value))
    ELSE Err(UnableToParseConfig)

\* The program before it has read its configuration.
InitLoad ==
    /\ commands = <<>>
    /\ config \in {Malformed} \cup {Yaml(c) : c \in SessionConfigs}
    /\ session = None
    /\ home = Some(<<"/", "home">>)
    /\ base_window_id = 0
    /\ base_pane_id = 0
    /\ pc = "load"
    /\ wid = 0
    /\ windows = <<>>
    /\ focus_pane = None
    /\ calls = <<>>
    /\ result = None
    /\ live = {}

\* cli.rs line 26, main.rs: the session is loaded, or the program ends with
\* the loader's error.
LoadSession ==
    /\ pc = "load"
    /\ LET loaded == load_from_string(config)
       IN IF loaded.kind = "Ok"
          THEN /\ session' = loaded.value
               /\ pc' = "idle"
               /\ UNCHANGED result
          ELSE /\ result' = Some(loaded)
               /\ pc' = "done"
               /\ UNCHANGED session
    /\ UNCHANGED <<commands, config, home, base_window_id, base_pane_id, wid, windows,
                   focus_pane, calls, live>>

NextLoad == LoadSession

SpecLoad == InitLoad /\ [][NextLoad]_vars

Loaded == pc = "idle" /\ config.kind = "Yaml"

\* C13: a configuration without a windows key loads as a session of exactly
\* one window, with no name and exactly one pane; a window without a panes
\* key loads with exactly one pane; a pane filled in by default has
\* focus = false, no directory and no command.
C13_LoaderFillsDefaults ==
    Loaded =>
        /\ ~IsSome(config.value.windows) =>
              /\ Len(session.windows) = 1
              /\ session.windows[1].name = None
              /\ Len(session.windows[1].panes) = 1
              /\ session.windows[1].panes[1] = Pane(FALSE, None, None)
        /\ IsSome(config.value.windows) =>
              /\ Len(session.windows) = Len(Unwrap(config.value.windows))
              /\ \A w \in 1..Len(session.windows) :
                    ~IsSome(Unwrap(config.value.windows)[w].panes) =>
                        /\ Len(session.windows[w].panes) = 1
                        /\ session.windows[w].panes[1] = Pane(FALSE, None, None)

C13_Witness ==
    /\ Loaded
    /\ IsSome(config.value.windows)
    /\ Len(session.windows) = 2
    /\ ~IsSome(Unwrap(config.value.windows)[1].panes)
    /\ IsSome(Unwrap(config.value.windows)[2].panes)
    /\ Len(session.windows[1].panes) = 1
    /\ Len(session.windows[2].panes) = 2

\* ------------------------------------- directories of the first panes
\* A declared directory as written, "." when there is none.
AsDeclared(directory) == IF IsSome(directory) THEN Unwrap(directory) ELSE <<".">>

\* C14 as stated: new_session is given the first pane's directory of the
\* first window, else that window's, else the session's, else "."; new_window
\* for the window at position w > 0 is given its first pane's directory, else
\* the window's, else the session's, else ".".
C14_Original ==
    InLoop =>
        /\ CallsOf("new_session")[1].arg = AsDeclared(DeclaredDirectory(0, 0))
        /\ \A w \in 1..Count("new_window") :
              CallsOf("new_window")[w].arg = AsDeclared(DeclaredDirectory(w, 0))

\* C14, amended: new_session and new_window are given that directory with a
\* leading "~" replaced by HOME when HOME is set, and "." when no directory is
\* declared or the path is not UTF-8.
C14_Amended ==
    InLoop =>
        /\ CallsOf("new_session")[1].arg = Rendered(DeclaredDirectory(0, 0))
        /\ \A w \in 1..Count("new_window") :
              CallsOf("new_window")[w].arg = Rendered(DeclaredDirectory(w, 0))

C14_Witness ==
    /\ Created
    /\ NumWindows = 2
    /\ Count("new_window") = 1
    /\ IsSome(session.windows[2].directory)
    /\ IsSome(PaneAt(1, 0).directory)
    /\ CallsOf("new_window")[1].arg = Unwrap(PaneAt(1, 0).directory)
    /\ CallsOf("new_window")[1].arg # Unwrap(session.windows[2].directory)
    /\ CallsOf("new_session")[1].arg = <<".">>

\* The positions of the named windows among the first n windows.
NamedWindowsBelow(n) == SelectSeq(NamedWindows, LAMBDA w : w < n)

\* C15: a creating apply issues rename_window for the window at position w
\* iff that window declares a name, exactly once, on that window's id and
\* with the declared name; an unnamed window causes no rename_window call.
C15_RenameIffNamed ==
    InLoop =>
        CallsOf("rename_window") =
            [k \in 1..Len(NamedWindowsBelow(wid)) |->
                Call("rename_window", ExpectedWindowId(NamedWindows[k]),
                     Unwrap(session.windows[NamedWindows[k] + 1].name))]

C15_Witness ==
    /\ Created
    /\ BaseIndexReply = Ok(<<"1">>)
    /\ NumWindows = 2
    /\ ~IsSome(session.windows[1].name)
    /\ IsSome(session.windows[2].name)
    /\ Count("rename_window") = 1
    /\ CallsOf("rename_window")[1].target.id = <<"d", ":", "2">>
    /\ CallsOf("rename_window")[1].arg = WindowNameValue

\* The positions of the panes with a command in the first n windows.
CommandPanesBelow(n) == SelectSeq(CommandPanes, LAMBDA x : x[1] < n)

\* C16: a creating apply issues send_keys for a pane iff the pane declares a
\* command, exactly once, on that pane's own id and with the whole command
\* text; there are as many send_keys calls as panes with a command.
C16_SendKeysIffCommand ==
    /\ InLoop =>
          CallsOf("send_keys") =
              [k \in 1..Len(CommandPanesBelow(wid)) |->
                  Call("send_keys", ExpectedPaneId(CommandPanes[k]),
                       Unwrap(PaneAt(CommandPanes[k][1], CommandPanes[k][2]).command))]
    /\ Created => Count("send_keys") = Len(CommandPanes)

C16_Witness ==
    /\ Created
    /\ PaneBaseIndexReply = Ok(<<"1">>)
    /\ NumWindows = 1
    /\ NumPanes(0) = 3
    /\ ~IsSome(PaneAt(0, 0).command)
    /\ IsSome(PaneAt(0, 1).command)
    /\ IsSome(PaneAt(0, 2).command)
    /\ Count("send_keys") = 2
    /\ CallsOf("send_keys")[1].target.id = <<"d", ":", "0", ".", "2">>
    /\ CallsOf("send_keys")[2].arg = CommandValue
    /\ \E i \in 1..Len(CommandValue) : CommandValue[i] = " "

\* The calls that build the windows and panes of the session.
BuildingOps == {"new_window", "rename_window", "new_pane", "send_keys"}

\* C17: in a creating apply new_session is the first mutating call;
\* switch_to_session is issued exactly once and is the last call;
\* select_pane, when issued, follows every new_window, rename_window,
\* new_pane and send_keys call and comes right before switch_to_session.
C17_SessionFirstSwitchLast ==
    /\ (Creating /\ MutatingCalls # <<>>) => MutatingCalls[1].op = "new_session"
    /\ Creating =>
          \A i, j \in 1..Len(calls) :
              (calls[i].op \in {"select_pane", "switch_to_session"}
                  /\ calls[j].op \in BuildingOps \cup {"new_session"}) => j < i
    /\ Created =>
          /\ Count("switch_to_session") = 1
          /\ calls[Len(calls)].op = "switch_to_session"
          /\ Count("select_pane") = 1 => calls[Len(calls) - 1].op = "select_pane"

C17_Witness ==
    /\ Created
    /\ Count("select_pane") = 1
    /\ Count("new_window") = 1
    /\ Count("send_keys") = 1
    /\ calls[Len(calls) - 1].op = "select_pane"
    /\ calls[Len(calls)].op = "switch_to_session"
    /\ calls[4].op = "new_session"
    /\ \E x \in 1..Len(FocusedPanes) : FocusedPanes[x] = <<0, 0>>

\* ------------------------------------------------------ the order of calls
\* The window a building call addresses.
WindowOfCall(i) ==
    IF calls[i].op = "send_keys" THEN calls[i].target.window ELSE calls[i].target

NewWindowsBefore(i) == Cardinality({j \in 1..(i - 1) : calls[j].op = "new_window"})

\* The new_pane calls on the window of call i that precede it.
NewPanesBefore(i) ==
    Cardinality({j \in 1..(i - 1) :
                    calls[j].op = "new_pane" /\ calls[j].target = WindowOfCall(i)})

\* C18: calls are issued in declaration order: a rename_window, new_pane or
\* send_keys call addresses the window created last (the one at the position
\* that counts the new_window calls before it), so the calls of window w
\* follow its new_window and precede those of window w + 1; rename_window
\* precedes the new_pane and send_keys calls of its window; and send_keys
\* addresses the pane created last in its window, so it follows that pane's
\* new_pane and precedes the next one.
C18_DeclarationOrder ==
    InLoop =>
        /\ \A i \in 1..Len(calls) :
              calls[i].op \in {"rename_window", "new_pane", "send_keys"} =>
                  WindowOfCall(i) = ExpectedWindowId(NewWindowsBefore(i))
        /\ \A i, j \in 1..Len(calls) :
              (/\ calls[i].op = "rename_window"
               /\ calls[j].op \in {"new_pane", "send_keys"}
               /\ WindowOfCall(j) = calls[i].target) => i < j
        /\ \A i \in 1..Len(calls) :
              calls[i].op = "send_keys" =>
                  calls[i].target =
                      PaneID(WindowOfCall(i),
                             to_string(DigitsValue(PaneBaseIndexReply.value)
                                           + NewPanesBefore(i)))

C18_Witness ==
    /\ Created
    /\ NumWindows = 2
    /\ NumPanes(1) = 2
    /\ [i \in 1..5 |-> calls[Len(calls) - 5 + i].op] =
          <<"new_window", "rename_window", "new_pane", "send_keys",
            "switch_to_session">>

\* C19: has_session is the first call of every apply and is made once; an
\* apply that creates has then called get_option("base-index") and
\* get_option("pane-base-index"), once each and in this order, before
\* new_session; when the base-index lookup fails, pane-base-index is never
\* looked up.
C19_LookupsOnceInOrder ==
    /\ Started =>
          /\ calls[1].op = "has_session"
          /\ calls[1].target = SessionId(session.name)
          /\ Count("has_session") = 1
    /\ Creating => Count("get_option") <= 2
    /\ InLoop =>
          /\ Count("get_option") = 2
          /\ calls[2].op = "get_option" /\ calls[2].target = "base-index"
          /\ calls[3].op = "get_option" /\ calls[3].target = "pane-base-index"
          /\ calls[4].op = "new_session"
    /\ (Creating /\ Len(calls) >= 2 /\ BadReply(BaseIndexReply)) =>
          /\ Len(calls) = 2
          /\ calls[2].op = "get_option" /\ calls[2].target = "base-index"

C19_Witness ==
    /\ Creating
    /\ ReturnedErr
    /\ Len(calls) = 2
    /\ BaseIndexReply = Err(OptionNotFound)
    /\ Count("get_option") = 1

\* ------------------------------------------------------------ termination
\* The steps apply takes depend on the backend's replies and on the numbers
\* of windows and panes; a field a session declares only adds a call to a
\* step.  The sessions here declare at most one optional field.
InitLive ==
    /\ \E name \in SessionNames, d \in Directories("s"), n \in 1..MaxWindows :
          SessionOf(name, d, <<>>, n, 1 - Declared(d), MaxPanes, 1)
    /\ commands = <<>>
    /\ config = None
    /\ home \in {h \in HomeValues : ReadsHome(session) \/ IsSome(h)}
    /\ base_window_id = 0
    /\ base_pane_id = 0
    /\ pc = "idle"
    /\ wid = 0
    /\ windows = <<>>
    /\ focus_pane = None
    /\ calls = <<>>
    /\ result = None
    /\ live = {}

\* apply is straight-line code and loops over finite lists: a step that can
\* be taken is taken.
SpecLive == InitLive /\ [][Next]_vars /\ WF_vars(Next)

\* C20: once new_session has been issued apply runs to completion: it
\* eventually has issued switch_to_session and returned Ok; and an error
\* apply returns is a BaseIdsError, never OptionNotFound, returned with no
\* mutating call made.
C20_RunsToCompletion ==
    /\ InLoop ~> (ReturnedOk /\ Count("switch_to_session") = 1
                     /\ calls[Len(calls)].op = "switch_to_session")
    /\ [](ReturnedErr =>
            /\ Unwrap(result).value.error = "BaseIdsError"
            /\ MutatingCalls = <<>>)
    /\ [](InLoop => ~ReturnedErr)

C20_Witness ==
    /\ Created
    /\ NumWindows = 2
    /\ TotalPanes(session.windows) = 3
    /\ Count("switch_to_session") = 1
    /\ Len(MutatingCalls) >= 5

\* ------------------------------------------------------------- the report
Report == Unwrap(result).value.windows

BaseWindow == DigitsValue(BaseIndexReply.value)

BasePane == DigitsValue(PaneBaseIndexReply.value)

\* C21 as stated: for any base indices the report entry of the window at
\* position w is (w, [0, ..., n_w - 1]): positions, not base-offset indices.
C21_Original ==
    Created =>
        /\ Len(Report) = NumWindows
        /\ \A w \in 0..(NumWindows - 1) :
              Report[w + 1] = <<w, [p \in 1..NumPanes(w) |-> p - 1]>>

\* C21, amended: the report entry of the window at position w is
\* (base-index + w, [pane-base-index + p for each declared pane]): the report
\* carries the base-offset indices the identifiers are composed from.
C21_Amended ==
    Created =>
        /\ Len(Report) = NumWindows
        /\ \A w \in 0..(NumWindows - 1) :
              Report[w + 1] =
                  <<BaseWindow + w, [p \in 1..NumPanes(w) |-> BasePane + p - 1]>>

C21_Witness ==
    /\ Created
    /\ BaseIndexReply = Ok(<<"1">>)
    /\ PaneBaseIndexReply = Ok(<<"1">>)
    /\ NumWindows = 2
    /\ Report = << <<1, <<1, 2>> >>, <<2, <<1>> >> >>

\* --------------------------------------------- the shape of identifiers
\* The pane ids apply has passed to the backend.
AddressedPanes ==
    {calls[k].target : k \in {i \in 1..Len(calls) :
                                 calls[i].op \in {"send_keys", "select_pane"}}}

\* The window and pane indices in the report so far.
ReportedPanes ==
    UNION {{<<windows[i][1], windows[i][2][p]>> : p \in 1..Len(windows[i][2])} :
              i \in 1..Len(windows)}

\* C22: a PaneID built from WindowID(s, w) and p reads "s:w.p"; its
\* window_id() is "s:w" and its session_id() is s; the session_id() of a
\* WindowID is s.
C22_PaneIdShapeAndOwners ==
    InLoop =>
        /\ \A i \in 1..Len(windows) :
              /\ ComposedWindowIds[i].id =
                    session.name \o <<":">> \o to_string(windows[i][1])
              /\ WindowID_session_id(ComposedWindowIds[i]) = session.name
        /\ \A t \in AddressedPanes :
              /\ \E x \in ReportedPanes :
                    t.id = session.name \o <<":">> \o to_string(x[1])
                               \o <<".">> \o to_string(x[2])
              /\ \E i \in 1..Len(windows) :
                    PaneID_window_id(t) = ComposedWindowIds[i].id
              /\ t.id = PaneID_window_id(t)
                            \o SubSeq(t.id, Len(PaneID_window_id(t)) + 1, Len(t.id))
              /\ PaneID_session_id(t) = session.name

C22_Witness ==
    /\ Created
    /\ \E t \in AddressedPanes :
          /\ t.id = <<"d", ":", "1", ".", "2">>
          /\ PaneID_window_id(t) = <<"d", ":", "1">>
          /\ PaneID_session_id(t) = <<"d">>

\* ------------------------------------------ tmux_client.rs: identifiers
\* SessionId(String), WindowID(SessionId, String), PaneID(WindowID, String).
TmuxSessionId(sid) == <<sid>>

TmuxWindowID(sid, window_id) == <<sid, window_id>>

TmuxPaneID(window_id, pane_id) == <<window_id, pane_id>>

\* SessionId::to_id, lines 31-33.
TmuxSessionId_to_id(id) == id[1]

\* WindowID::to_id, lines 44-46.
TmuxWindowID_to_id(id) == TmuxSessionId_to_id(id[1]) \o <<":">> \o id[2]

TmuxPaneID_to_id_dotted(id) == TmuxWindowID_to_id(id[1]) \o <<".">> \o id[2]

\* PaneID::to_id, lines 57-59.
TmuxPaneID_to_id(id) == TmuxWindowID_to_id(id[1]) \o <<":">> \o id[2]

\* ------------------------------------------ tmux_client.rs: TmuxClient
\* A tmux command line: the subcommand, its options as <<flag, value>> pairs
\* in the order given (value <<>> for a flag without one), and its operands.
Tmux(name, options, operands) ==
    [name |-> name, options |-> options, operands |-> operands]

Flag(flag) == <<flag, <<>> >>

EnterKey == <<"C", "-", "m">>

\* TmuxClient::new_session, lines 165-178.
tmux_new_session(sid, directory) ==
    <<Tmux("new-session",
           <<Flag("-d"), <<"-c", directory>>, <<"-s", TmuxSessionId_to_id(sid)>> >>,
           <<>>)>>

\* TmuxClient::switch_to_session, lines 180-186.
tmux_switch_to_session(sid) ==
    <<Tmux("switch-client", << <<"-t", TmuxSessionId_to_id(sid)>> >>, <<>>)>>

\* TmuxClient::has_session, lines 188-199.
tmux_has_session(sid) ==
    <<Tmux("has-session", << <<"-t", TmuxSessionId_to_id(sid)>> >>, <<>>)>>

\* TmuxClient::new_window, lines 201-213.
tmux_new_window(sid, directory) ==
    <<Tmux("new-window",
           << <<"-c", directory>>, <<"-t", TmuxSessionId_to_id(sid)>> >>, <<>>)>>

\* TmuxClient::rename_window, lines 215-226.
tmux_rename_window(window_id, window_name) ==
    <<Tmux("rename-window", << <<"-t", TmuxWindowID_to_id(window_id)>> >>,
           <<window_name>>)>>

\* TmuxClient::new_pane, lines 228-240.
tmux_new_pane(window_id, directory) ==
    <<Tmux("split-window",
           << <<"-c", directory>>, <<"-t", TmuxWindowID_to_id(window_id)>> >>, <<>>)>>

tmux_select_pane_only(pane_id) ==
    <<Tmux("select-pane", << <<"-t", TmuxPaneID_to_id(pane_id)>> >>, <<>>)>>

\* TmuxClient::select_pane, lines 242-255.
tmux_select_pane(pane_id) ==
    <<Tmux("select-window", << <<"-t", TmuxWindowID_to_id(pane_id[1])>> >>, <<>>),
      Tmux("select-pane", << <<"-t", TmuxPaneID_to_id(pane_id)>> >>, <<>>)>>

\* TmuxClient::send_keys, lines 257-269.
tmux_send_keys(pane_id, keys) ==
    <<Tmux("send-keys", << <<"-t", TmuxPaneID_to_id(pane_id)>> >>, <<keys, EnterKey>>)>>

\* TmuxClient::get_option, lines 147-158: the command line.
tmux_get_option(option_name) ==
    <<Tmux("show-options", <<Flag("-gv")>>, <<option_name>>)>>

IsAsciiWhitespace(c) == c \in {" ", "\n", "\t", "\r"}

\* <[u8]>::trim_ascii.
RECURSIVE trim_ascii_start(_)
trim_ascii_start(bytes) ==
    IF bytes # <<>> /\ IsAsciiWhitespace(Head(bytes)) THEN trim_ascii_start(Tail(bytes))
    ELSE bytes

RECURSIVE trim_ascii_end(_)
trim_ascii_end(bytes) ==
    IF bytes # <<>> /\ IsAsciiWhitespace(bytes[Len(bytes)])
    THEN trim_ascii_end(SubSeq(bytes, 1, Len(bytes) - 1))
    ELSE bytes

trim_ascii(bytes) == trim_ascii_end(trim_ascii_start(bytes))

TmuxOptionNotFound(detail) == [error |-> "OptionNotFound", detail |-> detail]

\* What running tmux show-options gives: it cannot be run, or its output.
ShowOptionsOutcomes ==
    {Err("spawn")} \cup
        {Ok(out) : out \in {<<"0", "\n">>, <<" ", "1", "\n">>, <<>>, <<NonUtf8, "\n">>}}

\* TmuxClient::get_option, lines 147-158: the value returned.
tmux_get_option_value(outcome) ==
    IF outcome.kind = "Err" THEN Err(TmuxOptionNotFound(outcome.value))
    ELSE LET value == to_str(trim_ascii(outcome.value))
         IN IF IsSome(value) THEN Ok(Unwrap(value))
            ELSE Err(TmuxOptionNotFound("utf8"))

\* The identifiers and texts the driver is called with.
TmuxSessionIds == {TmuxSessionId(name) : name \in SessionNames}

TmuxWindowIDs ==
    {TmuxWindowID(s, to_string(w)) : s \in TmuxSessionIds, w \in 0..1}

TmuxPaneIDs == {TmuxPaneID(w, to_string(p)) : w \in TmuxWindowIDs, p \in 0..1}

TmuxDirectories == {<<".">>, <<"/", "s">>}

\* A TmuxClient; no command has been run.
InitDriver ==
    /\ commands = <<>>
    /\ config = None
    /\ session = None
    /\ home = Some(<<"/", "home">>)
    /\ base_window_id = 0
    /\ base_pane_id = 0
    /\ pc = "driver"
    /\ wid = 0
    /\ windows = <<>>
    /\ focus_pane = None
    /\ calls = <<>>
    /\ result = None
    /\ live = {}

\* A call of a TmuxClient method that runs the command lines run and returns
\* returned (None for a method that returns nothing).
DriverCall(run, returned) ==
    /\ pc = "driver"
    /\ Len(commands) < MaxCommands
    /\ commands' = commands \o run
    /\ result' = returned
    /\ UNCHANGED <<config, session, home, base_window_id, base_pane_id, pc, wid,
                   windows, focus_pane, calls, live>>

TmuxGetOption ==
    \E name \in {"base-index", "pane-base-index"}, outcome \in ShowOptionsOutcomes :
        DriverCall(tmux_get_option(name), Some(tmux_get_option_value(outcome)))

TmuxNewSession ==
    \E s \in TmuxSessionIds, d \in TmuxDirectories :
        DriverCall(tmux_new_session(s, d), None)

TmuxSwitchToSession ==
    \E s \in TmuxSessionIds : DriverCall(tmux_switch_to_session(s), None)

\* has_session is true when tmux ran and exited with success.
TmuxHasSession ==
    \E s \in TmuxSessionIds, success \in BOOLEAN :
        DriverCall(tmux_has_session(s), Some(Ok(success)))

TmuxNewWindow ==
    \E s \in TmuxSessionIds, d \in TmuxDirectories :
        DriverCall(tmux_new_window(s, d), None)

TmuxRenameWindow ==
    \E w \in TmuxWindowIDs : DriverCall(tmux_rename_window(w, WindowNameValue), None)

TmuxNewPane ==
    \E w \in TmuxWindowIDs, d \in TmuxDirectories :
        DriverCall(tmux_new_pane(w, d), None)

TmuxSelectPane ==
    \E p \in TmuxPaneIDs : DriverCall(tmux_select_pane(p), None)

TmuxSendKeys ==
    \E p \in TmuxPaneIDs : DriverCall(tmux_send_keys(p, CommandValue), None)

NextDriver ==
    \/ TmuxGetOption
    \/ TmuxNewSession
    \/ TmuxSwitchToSession
    \/ TmuxHasSession
    \/ TmuxNewWindow
    \/ TmuxRenameWindow
    \/ TmuxNewPane
    \/ TmuxSelectPane
    \/ TmuxSendKeys

SpecDriver == InitDriver /\ [][NextDriver]_vars

Target(command) == command.options[Len(command.options)][2]

\* C23: the driver's select_pane runs select-window on the id of the pane's
\* window and then select-pane on the pane's id: a select-pane command line
\* directly follows a select-window command line whose target is the window
\* part of its own, and every select-window is followed by its select-pane.
C23_SelectsWindowThenPane ==
    \A i \in 1..Len(commands) :
        /\ commands[i].name = "select-pane" =>
              /\ i > 1
              /\ commands[i - 1].name = "select-window"
              /\ \E p \in TmuxPaneIDs :
                    /\ Target(commands[i]) = TmuxPaneID_to_id(p)
                    /\ Target(commands[i - 1]) = TmuxWindowID_to_id(p[1])
        /\ commands[i].name = "select-window" =>
              /\ i < Len(commands)
              /\ commands[i + 1].name = "select-pane"

C23_Witness ==
    /\ Len(commands) = 3
    /\ commands[2].name = "select-window"
    /\ Target(commands[2]) = <<"d", ":", "1">>
    /\ commands[3].name = "select-pane"

\* The reconciler's pane identifier for the same session name, window index
\* and pane index as the driver's pane identifier id.
MuxerPaneID(id) == PaneID(WindowID(SessionId(id[1][1][1]), id[1][2]), id[2])

MuxerWindowID(id) == WindowID(SessionId(id[1][1]), id[2])

PaneCommands == {"select-pane", "send-keys"}

\* C27: the driver's identifiers render the strings the reconciler's
\* identifiers render for the same session name, window index and pane index:
\* every pane target on a command line the driver ran is the reconciler's
\* pane identifier of the pane it was called with, and every window target
\* the reconciler's window identifier.
C27_IdModelsAgree ==
    \A i \in 1..Len(commands) :
        /\ commands[i].name \in PaneCommands =>
              \E p \in TmuxPaneIDs :
                  /\ Target(commands[i]) = TmuxPaneID_to_id(p)
                  /\ Target(commands[i]) = MuxerPaneID(p).id
        /\ commands[i].name \in {"rename-window", "select-window", "split-window"} =>
              \E w \in TmuxWindowIDs :
                  /\ Target(commands[i]) = TmuxWindowID_to_id(w)
                  /\ Target(commands[i]) = MuxerWindowID(w).id

\* ------------------------------------------------- one Muxer, many calls
\* A later apply of the same Muxer against any backend: the session may have
\* been closed since the earlier call and the options may have changed, so
\* has_session and get_option answer freely in every call.
ReapplyAnyBackend ==
    /\ pc = "done"
    /\ \E exists \in BOOLEAN : ApplyBegin(exists)

NextReuseAny ==
    \/ Next
    \/ ReapplyAnyBackend

SpecReuseAny == InitLive /\ [][NextReuseAny]_vars

WindowTargetOps == {"rename_window", "new_pane"}

PaneTargetOps == {"send_keys", "select_pane"}

\* Once this call has issued new_session the two fields hold what this call's
\* own lookups returned, and every window and pane it has addressed is
\* composed from those values.
FieldsAreThisCallsLookups ==
    InLoop =>
        /\ base_window_id = DigitsValue(BaseIndexReply.value)
        /\ base_pane_id = DigitsValue(PaneBaseIndexReply.value)
        /\ \A i \in 1..Len(calls) :
              /\ calls[i].op \in WindowTargetOps =>
                    \E w \in 0..(NumWindows - 1) : calls[i].target = ExpectedWindowId(w)
              /\ calls[i].op \in PaneTargetOps =>
                    \E w \in 0..(NumWindows - 1) :
                        \E p \in 0..(NumPanes(w) - 1) :
                            calls[i].target = ExpectedPaneId(<<w, p>>)
        /\ ReturnedOk =>
              \A w \in 1..NumWindows :
                  Report[w][1] = DigitsValue(BaseIndexReply.value) + w - 1

\* A step writes base_window_id only in the base-index lookup and
\* base_pane_id only in the pane-base-index lookup, both before new_session
\* of the call; the existing-session path writes neither.
FieldsWrittenOnlyByLookups ==
    /\ base_window_id' # base_window_id =>
          pc = "base_index" /\ Count("new_session") = 0
    /\ base_pane_id' # base_pane_id =>
          pc = "pane_base_index" /\ Count("new_session") = 0
    /\ calls' = existing_session_calls(session_id) =>
          UNCHANGED <<base_window_id, base_pane_id>>

\* C24: a Muxer reused for several apply calls addresses no window or pane
\* with a stale base index: what a creating apply composes uses the values
\* of base-index and pane-base-index fetched in that call, whatever an
\* earlier call fetched; the two fields are written only by the lookups and
\* never after new_session of the call; and an apply that takes the
\* existing-session path leaves both fields as they were.
C24_NoStaleBaseIndices ==
    /\ []FieldsAreThisCallsLookups
    /\ [][FieldsWrittenOnlyByLookups]_vars

\* A later creating apply under way, after a call that issued new_session:
\* the pane base field still holds the 1 the earlier call fetched, the window
\* base field the 0 this call has just fetched.
C24_Witness ==
    /\ pc = "pane_base_index"
    /\ calls = <<Call("has_session", session_id, FALSE),
                 Call("get_option", "base-index", Ok(<<"0">>))>>
    /\ base_window_id = 0
    /\ base_pane_id = 1
    /\ session_id \in live

\* ------------------------------------------------------------ empty lists
\* A Muxer handed a session built in code rather than loaded: its window
\* list, and the pane list of any window, may be empty.  The sessions here
\* declare at most one optional field.
InitAny ==
    /\ \E name \in SessionNames, d \in Directories("s"), n \in 0..MaxWindows :
          SessionOf(name, d, <<>>, n, 1 - Declared(d), MaxPanes, 0)
    /\ commands = <<>>
    /\ config = None
    /\ home \in {h \in HomeValues : ReadsHome(session) \/ IsSome(h)}
    /\ base_window_id = 0
    /\ base_pane_id = 0
    /\ pc = "idle"
    /\ wid = 0
    /\ windows = <<>>
    /\ focus_pane = None
    /\ calls = <<>>
    /\ result = None
    /\ live = {}

SpecAny == InitAny /\ [][Next]_vars

\* The session's directory as declared, "." when it declares none.
DeclaredOrDot(directory) == IF IsSome(directory) THEN Unwrap(directory) ELSE <<".">>

\* What apply does for a session without windows when new_session is given
\* directory, and for a window without panes.
EmptyListsGiven(directory) ==
    /\ (Creating /\ NumWindows = 0) =>
          \A op \in {"new_window", "rename_window", "new_pane", "send_keys",
                      "select_pane"} : Count(op) = 0
    /\ (Created /\ NumWindows = 0) =>
          /\ MutatingCalls = <<Call("new_session", session_id, directory),
                               Call("switch_to_session", session_id, <<>>)>>
          /\ Unwrap(result).value.is_new_session = TRUE
          /\ Report = <<>>
    /\ Created =>
          \A w \in 0..(NumWindows - 1) :
              NumPanes(w) = 0 =>
                  /\ \A i \in 1..Len(calls) :
                        /\ calls[i].op = "new_pane" =>
                              calls[i].target # ExpectedWindowId(w)
                        /\ calls[i].op = "send_keys" =>
                              calls[i].target.window # ExpectedWindowId(w)
                  /\ Report[w + 1][2] = <<>>

\* C25 as stated: for a session whose window list is empty apply issues
\* new_session with the session's directory as declared ("." if it declares
\* none), then switch_to_session, and nothing else that changes the backend,
\* and reports a new session without windows; for a window whose pane list
\* is empty it issues no new_pane or send_keys and reports no pane.
C25_Original == EmptyListsGiven(DeclaredOrDot(session.directory))

\* C25, amended: the same, with the directory new_session is given being the
\* session's directory as the backend receives any directory: a leading "~"
\* replaced by HOME when HOME is set, "." when the session declares none or
\* the path is not UTF-8.
C25_Amended == EmptyListsGiven(RenderedUnder(home, session.directory))

C25_Witness ==
    /\ Created
    /\ NumWindows = 0
    /\ session.directory = Some(<<"~", "s">>)
    /\ home = Some(<<"/", "home">>)
    /\ CallsOf("new_session")[1].arg = <<"/", "home", "s">>
    /\ Len(calls) = 5

\* ------------------------------------------------------ the machine word
\* a + b is above usize::MAX.
Overflows(a, b) == a + b > UsizeMax

\* The position of the first pane of window w whose index overflows, the
\* number of panes if there is none.
RECURSIVE FirstOverflow(_, _, _)
FirstOverflow(w, base_pane, p_pos) ==
    IF p_pos >= Len(w.panes) \/ Overflows(base_pane, p_pos) THEN p_pos
    ELSE FirstOverflow(w, base_pane, p_pos + 1)

\* apply, lines 252-293, in a build with overflow checks (the default of a
\* debug build): the addition of line 264 or of line 273 panics.  The calls
\* issued before it stay issued and apply returns nothing.  Line 264 comes
\* after new_window and before rename_window; line 273 opens the iteration
\* of the pane loop.
WindowStepPanics ==
    /\ pc = "window"
    /\ wid < Len(session.windows)
    /\ LET w == session.windows[wid + 1]
           unnamed == [session EXCEPT !.windows[wid + 1].name = None]
           window_id == WindowID(session_id,
                                 to_string(window_index(base_window_id, wid)))
           reached == FirstOverflow(w, base_pane_id, 0)
           before == [w EXCEPT !.panes = SubSeq(w.panes, 1, reached)]
       IN /\ Overflows(base_window_id, wid) \/ reached < Len(w.panes)
          /\ calls' =
                IF Overflows(base_window_id, wid)
                THEN calls \o window_calls(unnamed, wid, window_id)
                ELSE pane_loop([calls |-> calls \o window_calls(session, wid, window_id),
                                panes |-> <<>>, focus_pane |-> focus_pane],
                               session, before, window_id, 0, base_pane_id).calls
    /\ pc' = "panicked"
    /\ UNCHANGED <<commands, config, session, home, base_window_id, base_pane_id, wid,
                   windows, focus_pane, result, live>>

\* Option values at the end of the range of usize: the two largest values
\* and the first value parse() rejects.
WordTexts == {<<"0">>, to_string(UsizeMax - 1), to_string(UsizeMax), to_string(UsizeMax + 1)}

WordReplies == {Ok(text) : text \in WordTexts}

SetupBaseWindowIdWord == SetupBaseWindowIdFrom(WordReplies)

SetupBasePaneIdWord == SetupBasePaneIdFrom(WordReplies)

NextWord ==
    \/ Apply
    \/ SetupBaseWindowIdWord
    \/ SetupBasePaneIdWord
    \/ NewSession
    \/ WindowStep
    \/ WindowStepPanics
    \/ Finish

SpecWord == InitLive /\ [][NextWord]_vars

\* C26: for every value of base-index and pane-base-index that parsing
\* accepts (any value up to usize::MAX) the indices base_window_id + w and
\* base_pane_id + p are computed exactly, without overflow or wrap-around:
\* no addition panics, and the window at position w is reported under
\* base_window_id + w and its pane at position p under base_pane_id + p.
C26_IndicesExact ==
    /\ pc # "panicked"
    /\ \A w \in 1..Len(windows) :
          /\ windows[w][1] = base_window_id + w - 1
          /\ \A p \in 1..Len(windows[w][2]) :
                windows[w][2][p] = base_pane_id + p - 1

====
